---- MODULE Spec2Model ----
(***************************************************************************)
(* The document transformation pipeline of app.py: normalize,              *)
(* split_markdown_sections, label_match, choose_section,                   *)
(* split_by_paragraph and chunk_markdown.                                  *)
(*                                                                         *)
(* A text is a sequence of one-character strings.  Every function of the   *)
(* source is an operator computed the way the source computes it; every    *)
(* specification draws the function's arguments in its initial states and  *)
(* its actions call the function.                                          *)
(***************************************************************************)
EXTENDS Integers, Sequences, FiniteSets, TLC

VARIABLES
    pc,             \* the position of the current run
    normIn,         \* normalize: the argument s
    normOut,        \* normalize(s)
    normTwice,      \* normalize(normalize(s))
    md,             \* split_markdown_sections: the argument md
    sections,       \* split_markdown_sections(md)
    video_labels,   \* choose_section: the argument video_labels
    lesson_labels,  \* choose_section: the argument lesson_labels
    min_level,      \* choose_section: the argument min_level
    max_level,      \* choose_section: the argument max_level
    selected,       \* choose_section(...): (selected_section, text, heading)
    chunk_md,       \* chunk_markdown: the argument md
    target_chars,   \* chunk_markdown: the argument target_chars
    overlap_chars,  \* chunk_markdown: the argument overlap_chars
    chunks,         \* chunk_markdown(md, target_chars, overlap_chars)
    ren_md,         \* renumber_ordered_lists: the argument md
    ren_st,         \* renumber_ordered_lists: the locals of the loop over the lines
    ren_out,        \* renumber_ordered_lists(md)
    row_line,       \* _split_md_row: the argument line
    row_cells,      \* _split_md_row(line)
    table_md,       \* extract_tables: the argument md
    tables,         \* extract_tables(md): (md_with_tables, tables)
    clean_md,       \* clean_markdown: the argument md
    cleaned,        \* strip_bold_emphasis(renumber_ordered_lists(clean_markdown(md)))
    md_files,       \* convert_zip_to_datasets: the documents of the batch
    do_chunk,       \* convert_zip_to_datasets: the argument do_chunk
    ok,             \* convert_zip_to_datasets: the number of documents processed
    jsonl_buf,      \* convert_zip_to_datasets: the records written to the JSONL
    csv_buf,        \* convert_zip_to_datasets: the rows written to the CSV
    rep_buf         \* convert_zip_to_datasets: the rows written to the report

normVars == <<normIn, normOut, normTwice>>
splitVars == <<md, sections>>
chooseArgs == <<video_labels, lesson_labels, min_level, max_level>>
chooseVars == <<chooseArgs, selected>>
chunkArgs == <<chunk_md, target_chars, overlap_chars>>
chunkVars == <<chunkArgs, chunks>>
renVars == <<ren_md, ren_st, ren_out>>
rowVars == <<row_line, row_cells>>
tableVars == <<table_md, tables>>
cleanVars == <<clean_md, cleaned>>
batchArgs == <<md_files, do_chunk>>
batchVars == <<batchArgs, ok, jsonl_buf, csv_buf, rep_buf>>
coreVars == <<normVars, splitVars, chooseVars, chunkVars>>
restVars == <<renVars, rowVars, tableVars, cleanVars, batchVars>>
vars == <<pc, normVars, splitVars, chooseVars, chunkVars, restVars>>

(***************************************************************************)
(* Bounds of the model.                                                    *)
(***************************************************************************)
MaxStrLen == 3
MaxDocLines == 4
MaxChunkLines == 5
MaxTargetChars == 7
MaxOverlapChars == 6
MaxListLines == 4
MaxRowLen == 5
MaxTableLines == 4
MaxCleanLines == 4
MaxBatchDocs == 2

(***************************************************************************)
(* Characters.                                                             *)
(***************************************************************************)
UpperLetters == <<"A","B","C","D","E","F","G","H","I","J","K","L","M",
                  "N","O","P","Q","R","S","T","U","V","W","X","Y","Z">>
LowerLetters == <<"a","b","c","d","e","f","g","h","i","j","k","l","m",
                  "n","o","p","q","r","s","t","u","v","w","x","y","z">>
Digits == {"0","1","2","3","4","5","6","7","8","9"}

Range(f) == {f[i] : i \in DOMAIN f}

\* Python's str.isspace / the regex class \s, on the characters of the model.
IsSpace(c) == c \in {" ", "\t", "\n"}

\* The regex class \w on ASCII text: letters, digits and the underscore.
IsWord(c) == c \in Range(UpperLetters) \cup Range(LowerLetters) \cup Digits \cup {"_"}

\* str.lower() on one ASCII character.
LowerChar(c) ==
    IF c \in Range(UpperLetters)
    THEN LowerLetters[CHOOSE i \in DOMAIN UpperLetters : UpperLetters[i] = c]
    ELSE c

\* unicodedata.normalize("NFKD", c).encode("ascii", "ignore") on one character:
\* an accented letter decomposes to its base letter and a combining mark, which
\* is dropped; a character with no ASCII part is dropped whole.
AsciiFoldChar(c) ==
    CASE c = "é" -> <<"e">>
      [] c = "ó" -> <<"o">>
      [] c = "ö" -> <<"o">>
      [] c = "ß" -> <<>>
      [] OTHER -> <<c>>

(***************************************************************************)
(* Text helpers (Python built-ins).                                        *)
(***************************************************************************)
RECURSIVE LStrip(_)
LStrip(s) == IF s # <<>> /\ IsSpace(Head(s)) THEN LStrip(Tail(s)) ELSE s

RECURSIVE RStrip(_)
RStrip(s) ==
    IF s # <<>> /\ IsSpace(s[Len(s)]) THEN RStrip(SubSeq(s, 1, Len(s) - 1)) ELSE s

\* The least element of a non-empty set of integers.
Min(S) == CHOOSE x \in S : \A y \in S : x <= y

\* str.strip()
Strip(s) == RStrip(LStrip(s))

\* str.lower()
Lower(s) == [i \in DOMAIN s |-> LowerChar(s[i])]

RECURSIVE AsciiFold(_)
AsciiFold(s) ==
    IF s = <<>> THEN <<>> ELSE AsciiFoldChar(Head(s)) \o AsciiFold(Tail(s))

\* re.sub(r"[^\w\s]", " ", s)
PunctToSpace(s) ==
    [i \in DOMAIN s |-> IF IsWord(s[i]) \/ IsSpace(s[i]) THEN s[i] ELSE " "]

\* re.sub(r"\s+", " ", s): every maximal run of whitespace becomes one space.
RECURSIVE CollapseSpace(_)
CollapseSpace(s) ==
    IF s = <<>> THEN <<>>
    ELSE IF IsSpace(Head(s)) THEN <<" ">> \o CollapseSpace(LStrip(s))
    ELSE <<Head(s)>> \o CollapseSpace(Tail(s))

(***************************************************************************)
(* normalize (app.py 25-34).  The strip comes before the punctuation is    *)
(* turned into spaces, as in the source.                                   *)
(***************************************************************************)
normalize(s) == CollapseSpace(PunctToSpace(Lower(Strip(AsciiFold(s)))))

(***************************************************************************)
(* Lines of a text.                                                        *)
(***************************************************************************)
Last(s) == s[Len(s)]
Front(s) == SubSeq(s, 1, Len(s) - 1)

\* str.split("\n"): the parts between the line breaks, always at least one.
SplitNL(text) ==
    LET breaks == {0, Len(text) + 1} \cup {i \in DOMAIN text : text[i] = "\n"}
        Break(k) == CHOOSE b \in breaks : Cardinality({c \in breaks : c < b}) = k
    IN  [k \in 1..(Cardinality(breaks) - 1) |-> SubSeq(text, Break(k - 1) + 1, Break(k) - 1)]

\* str.splitlines(): no line for the empty text, none after a final line break.
SplitLines(text) ==
    IF text = <<>> THEN <<>>
    ELSE LET parts == SplitNL(text)
         IN  IF Last(parts) = <<>> THEN Front(parts) ELSE parts

\* sep.join(parts)
RECURSIVE Join(_, _)
Join(parts, sep) ==
    IF parts = <<>> THEN <<>>
    ELSE IF Len(parts) = 1 THEN parts[1]
    ELSE parts[1] \o sep \o Join(Tail(parts), sep)

(***************************************************************************)
(* split_markdown_sections (app.py 70-102).                                *)
(* None is the empty tuple, a value v that is set is <<v>>.                *)
(***************************************************************************)
None == <<>>
Some(v) == <<v>>

\* The number of "#" a line starts with: group 1 of HEADING_RE.
RECURSIVE HashRun(_)
HashRun(ln) == IF ln # <<>> /\ Head(ln) = "#" THEN 1 + HashRun(Tail(ln)) ELSE 0

\* HEADING_RE.match(ln): ^(#+)\s+(.*)$
HeadingMatches(ln) ==
    LET k == HashRun(ln) IN k >= 1 /\ Len(ln) > k /\ IsSpace(ln[k + 1])

\* m.group(2): what follows the whitespace after the "#" run.
HeadingGroup2(ln) == LStrip(SubSeq(ln, HashRun(ln) + 1, Len(ln)))

\* flush() of split_markdown_sections: the section in progress, if there is
\* one, is appended; the state is reset.
Flush(st) ==
    [sections |->
        IF st.current_title # None
        THEN Append(st.sections,
                    [level |-> IF st.current_level = None THEN 0 ELSE st.current_level[1],
                     title |-> st.current_title[1],
                     lines |-> st.current_buf])
        ELSE st.sections,
     current_level |-> None,
     current_title |-> None,
     current_buf |-> <<>>]

\* SplitLine with the first line before any heading opening the level-0
\* section without being appended to it.
SplitLineDropsOpeningLine(st, ln) ==
    IF HeadingMatches(ln)
    THEN [Flush(st) EXCEPT !.current_level = Some(HashRun(ln)),
                           !.current_title = Some(Strip(HeadingGroup2(ln))),
                           !.current_buf = <<>>]
    ELSE IF st.current_title = None
         THEN [st EXCEPT !.current_title = Some(<<>>),
                         !.current_level = Some(0),
                         !.current_buf = <<>>]
         ELSE [st EXCEPT !.current_buf = Append(st.current_buf, ln)]

\* SplitLine testing "not current_title" where the source tests
\* "current_title is None": an empty title restarts the buffer too.
SplitLineFalsyTitle(st, ln) ==
    IF HeadingMatches(ln)
    THEN [Flush(st) EXCEPT !.current_level = Some(HashRun(ln)),
                           !.current_title = Some(Strip(HeadingGroup2(ln))),
                           !.current_buf = <<>>]
    ELSE IF st.current_title = None \/ st.current_title = Some(<<>>)
         THEN [st EXCEPT !.current_title = Some(<<>>),
                         !.current_level = Some(0),
                         !.current_buf = <<ln>>]
         ELSE [st EXCEPT !.current_buf = Append(st.current_buf, ln)]

\* One pass of the loop over the lines (app.py 86-99).
SplitLine(st, ln) ==
    IF HeadingMatches(ln)
    THEN [Flush(st) EXCEPT !.current_level = Some(HashRun(ln)),
                           !.current_title = Some(Strip(HeadingGroup2(ln))),
                           !.current_buf = <<>>]
    ELSE IF st.current_title = None
         THEN [st EXCEPT !.current_title = Some(<<>>),
                         !.current_level = Some(0),
                         !.current_buf = <<ln>>]
         ELSE [st EXCEPT !.current_buf = Append(st.current_buf, ln)]

RECURSIVE SplitLoop(_, _)
SplitLoop(st, lines) ==
    IF lines = <<>> THEN st ELSE SplitLoop(SplitLine(st, Head(lines)), Tail(lines))

split_markdown_sections(text) ==
    Flush(SplitLoop([sections |-> <<>>, current_level |-> None,
                     current_title |-> None, current_buf |-> <<>>],
                    SplitLines(text))).sections

(***************************************************************************)
(* label_match (app.py 115-124).                                           *)
(***************************************************************************)
\* str.split(): the maximal runs of non-whitespace characters.
RECURSIVE SplitWords(_)
SplitWords(s) ==
    LET t == LStrip(s)
        WordLen[i \in 0..Len(t)] ==
            IF i < Len(t) /\ ~IsSpace(t[i + 1]) THEN WordLen[i + 1] ELSE i
    IN  IF t = <<>> THEN <<>>
        ELSE <<SubSeq(t, 1, WordLen[0])>> \o SplitWords(SubSeq(t, WordLen[0] + 1, Len(t)))

\* tok in s
IsSubstring(tok, s) ==
    \E i \in 0..(Len(s) - Len(tok)) : SubSeq(s, i + 1, i + Len(tok)) = tok

\* PhraseMatches for a loop that skips a phrase with no tokens.
PhraseMatchesNeedsToken(tnorm, raw) ==
    LET subtoks == SplitWords(normalize(raw))
    IN  /\ subtoks # <<>>
        /\ \A k \in DOMAIN subtoks : subtoks[k] # <<>> => IsSubstring(subtoks[k], tnorm)

\* One pass of the loop over target_tokens: all(tok in tnorm for tok in subtoks if tok)
PhraseMatches(tnorm, raw) ==
    LET subtoks == SplitWords(normalize(raw))
    IN  \A k \in DOMAIN subtoks : subtoks[k] # <<>> => IsSubstring(subtoks[k], tnorm)

label_match(title, target_tokens) ==
    \E k \in DOMAIN target_tokens : PhraseMatches(normalize(title), target_tokens[k])

(***************************************************************************)
(* choose_section (app.py 126-159).                                        *)
(***************************************************************************)
\* text_of with the strip left out.
text_ofUnstripped(sec) == Join(sec.lines, <<"\n">>)

text_of(sec) == Strip(Join(sec.lines, <<"\n">>))

\* The loop that fills candidates["video"] and candidates["lecke"] (141-146).
RECURSIVE Candidates(_, _, _, _, _)
Candidates(secs, vlabels, llabels, lo, hi) ==
    IF secs = <<>> THEN [video |-> <<>>, lecke |-> <<>>]
    ELSE LET sec == Head(secs)
             rest == Candidates(Tail(secs), vlabels, llabels, lo, hi)
         IN  IF lo <= sec.level /\ sec.level <= hi
             THEN IF label_match(sec.title, vlabels)
                  THEN [rest EXCEPT !.video = <<sec>> \o rest.video]
                  ELSE IF label_match(sec.title, llabels)
                       THEN [rest EXCEPT !.lecke = <<sec>> \o rest.lecke]
                       ELSE rest
             ELSE rest

\* The first candidate whose text is not empty, as (kind, text, title); None
\* when the loop over the candidates ends without returning.
RECURSIVE FirstWithText(_, _)
FirstWithText(kind, cands) ==
    IF cands = <<>> THEN None
    ELSE IF text_of(Head(cands)) # <<>>
         THEN Some(<<kind, text_of(Head(cands)), Head(cands).title>>)
         ELSE FirstWithText(kind, Tail(cands))

choose_section(secs, vlabels, llabels, lo, hi) ==
    LET candidates == Candidates(secs, vlabels, llabels, lo, hi)
        video == FirstWithText("video", candidates.video)
        lecke == FirstWithText("lecke", candidates.lecke)
    IN  IF video # None THEN video[1]
        ELSE IF lecke # None THEN lecke[1]
        ELSE <<"none", <<>>, <<>>>>

(***************************************************************************)
(* split_by_paragraph (app.py 243-261).                                    *)
(***************************************************************************)
\* The backquote character (the parser accepts no backquote inside a string).
Backquote == "BACKQUOTE"

\* re.match: the line is whitespace followed by three backquotes.
FenceMatches(ln) ==
    LET t == LStrip(ln)
    IN  Len(t) >= 3 /\ SubSeq(t, 1, 3) = <<Backquote, Backquote, Backquote>>

\* One pass of the loop over the lines (app.py 250-258).
ParagraphLine(st, ln) ==
    LET in_code == IF FenceMatches(ln) THEN ~st.in_code ELSE st.in_code
    IN  IF ~in_code /\ Strip(ln) = <<>>
        THEN IF st.buf # <<>>
             THEN [out |-> Append(st.out, Join(st.buf, <<"\n">>)),
                   buf |-> <<>>, in_code |-> in_code]
             ELSE [st EXCEPT !.in_code = in_code]
        ELSE [st EXCEPT !.buf = Append(st.buf, ln), !.in_code = in_code]

RECURSIVE ParagraphLoop(_, _)
ParagraphLoop(st, lines) ==
    IF lines = <<>> THEN st
    ELSE ParagraphLoop(ParagraphLine(st, Head(lines)), Tail(lines))

split_by_paragraph(text) ==
    IF text = <<>> THEN <<>>
    ELSE LET st == ParagraphLoop([out |-> <<>>, buf |-> <<>>, in_code |-> FALSE],
                                 SplitNL(text))
         IN  IF st.buf # <<>> THEN Append(st.out, Join(st.buf, <<"\n">>)) ELSE st.out

(***************************************************************************)
(* chunk_markdown (app.py 263-295).                                        *)
(***************************************************************************)
Reverse(s) == [i \in 1..Len(s) |-> s[Len(s) + 1 - i]]

RECURSIVE SumSizes(_)
SumSizes(buf) == IF buf = <<>> THEN 0 ELSE Len(Head(buf)) + 2 + SumSizes(Tail(buf))

\* The loop over reversed(buf) that collects the overlap (app.py 278-285):
\* rev is what is left of reversed(buf).
RECURSIVE TakeBack(_, _, _, _)
TakeBack(rev, back, backsize, overlap) ==
    IF rev = <<>> THEN back
    ELSE LET qlen == Len(Head(rev)) + 2
         IN  IF backsize + qlen > overlap /\ back # <<>> THEN back
             ELSE TakeBack(Tail(rev), Append(back, Head(rev)), backsize + qlen, overlap)

\* The chunk a buffer is closed as (app.py 274-276 and 292-294).
ChunkOf(buf, start) ==
    LET text == Strip(Join(buf, <<"\n", "\n">>))
    IN  [text |-> text, start |-> start, end |-> start + Len(text)]

\* ChunkParagraph with the closing branch ending the pass: the paragraph that
\* did not fit is not appended to the new buffer.
ChunkParagraphSkipsAfterClose(st, p, target, overlap) ==
    LET plen == Len(p) + 2
    IN  IF st.size + plen > target /\ st.size > 0
        THEN LET chunk == ChunkOf(st.buf, st.start)
                 buf == Reverse(TakeBack(Reverse(st.buf), <<>>, 0, overlap))
                 size == SumSizes(buf)
             IN  [chunks |-> Append(st.chunks, chunk),
                  buf |-> buf,
                  size |-> size,
                  start |-> chunk.end - size]
        ELSE [st EXCEPT !.buf = Append(st.buf, p), !.size = st.size + plen]

\* One pass of the loop over the paragraphs (app.py 271-290).
ChunkParagraph(st, p, target, overlap) ==
    LET plen == Len(p) + 2
    IN  IF st.size + plen > target /\ st.size > 0
        THEN LET chunk == ChunkOf(st.buf, st.start)
                 buf == Reverse(TakeBack(Reverse(st.buf), <<>>, 0, overlap))
                 size == SumSizes(buf)
             IN  [chunks |-> Append(st.chunks, chunk),
                  buf |-> Append(buf, p),
                  size |-> size + plen,
                  start |-> chunk.end - size]
        ELSE [st EXCEPT !.buf = Append(st.buf, p), !.size = st.size + plen]

RECURSIVE ChunkLoop(_, _, _, _)
ChunkLoop(st, paras, target, overlap) ==
    IF paras = <<>> THEN st
    ELSE ChunkLoop(ChunkParagraph(st, Head(paras), target, overlap),
                   Tail(paras), target, overlap)

chunk_markdown(text, target, overlap) ==
    IF text = <<>> THEN <<[text |-> <<>>, start |-> 0, end |-> 0]>>
    ELSE LET st == ChunkLoop([chunks |-> <<>>, buf |-> <<>>, size |-> 0, start |-> 0],
                             split_by_paragraph(text), target, overlap)
         IN  IF st.buf # <<>> THEN Append(st.chunks, ChunkOf(st.buf, st.start))
             ELSE st.chunks

(***************************************************************************)
(* clean_markdown (app.py 164-173).  The substitutions run over the whole  *)
(* text; none of them looks at the code fences.                            *)
(***************************************************************************)
\* re.sub(r"^(#+)([^\s#])", r"\1 \2", md, flags=re.M), on one line: a space
\* is put between the run of "#" a line begins with and a character after it
\* that is not whitespace.
SpaceAfterHashes(ln) ==
    LET k == HashRun(ln)
    IN  IF k >= 1 /\ Len(ln) > k /\ ~IsSpace(ln[k + 1])
        THEN SubSeq(ln, 1, k) \o <<" ">> \o SubSeq(ln, k + 1, Len(ln))
        ELSE ln

HeadingSpaces(text) ==
    LET lines == SplitNL(text)
    IN  Join([i \in DOMAIN lines |-> SpaceAfterHashes(lines[i])], <<"\n">>)

\* re.sub(r"(\n#+\s)", r"\n\n\1", md), from position pos on: the next line
\* break that is followed by a run of "#" and a whitespace character gets two
\* line breaks before it, and the scan goes on after the whitespace character.
RECURSIVE BlankBeforeHeadings(_, _)
BlankBeforeHeadings(text, pos) ==
    LET Hashes(i) == HashRun(SubSeq(text, i + 1, Len(text)))
        matches ==
            {i \in pos..Len(text) :
                /\ text[i] = "\n"
                /\ Hashes(i) >= 1
                /\ i + Hashes(i) + 1 <= Len(text)
                /\ IsSpace(text[i + Hashes(i) + 1])}
    IN  IF matches = {} THEN SubSeq(text, pos, Len(text))
        ELSE LET i == Min(matches)
                 k == Hashes(i)
             IN  SubSeq(text, pos, i - 1) \o <<"\n", "\n">> \o SubSeq(text, i, i + k + 1)
                     \o BlankBeforeHeadings(text, i + k + 2)

\* re.sub(r"(\n>\s)", r"\n\n\1", md), from position pos on.
RECURSIVE BlankBeforeQuotes(_, _)
BlankBeforeQuotes(text, pos) ==
    LET matches ==
            {i \in pos..(Len(text) - 2) :
                text[i] = "\n" /\ text[i + 1] = ">" /\ IsSpace(text[i + 2])}
    IN  IF matches = {} THEN SubSeq(text, pos, Len(text))
        ELSE LET i == Min(matches)
             IN  SubSeq(text, pos, i - 1) \o <<"\n", "\n">> \o SubSeq(text, i, i + 2)
                     \o BlankBeforeQuotes(text, i + 3)

\* re.sub(r"\n{3,}", "\n\n", md), from position pos on: a run of three line
\* breaks or more becomes two.
RECURSIVE CollapseBlankLines(_, _)
CollapseBlankLines(text, pos) ==
    LET matches ==
            {i \in pos..(Len(text) - 2) :
                text[i] = "\n" /\ text[i + 1] = "\n" /\ text[i + 2] = "\n"}
    IN  IF matches = {} THEN SubSeq(text, pos, Len(text))
        ELSE LET i == Min(matches)
                 rest == {j \in i..Len(text) : text[j] # "\n"}
                 next == IF rest = {} THEN Len(text) + 1 ELSE Min(rest)
             IN  SubSeq(text, pos, i - 1) \o <<"\n", "\n">>
                     \o CollapseBlankLines(text, next)

\* re.sub(r"^>\s-\s", "- ", md, flags=re.M), from position pos on.
RECURSIVE QuotedListItems(_, _)
QuotedListItems(text, pos) ==
    LET matches ==
            {i \in pos..(Len(text) - 3) :
                /\ (i = 1 \/ text[i - 1] = "\n")
                /\ text[i] = ">" /\ IsSpace(text[i + 1])
                /\ text[i + 2] = "-" /\ IsSpace(text[i + 3])}
    IN  IF matches = {} THEN SubSeq(text, pos, Len(text))
        ELSE LET i == Min(matches)
             IN  SubSeq(text, pos, i - 1) \o <<"-", " ">> \o QuotedListItems(text, i + 4)

clean_markdown(text) ==
    IF text = <<>> THEN <<>>
    ELSE Strip(QuotedListItems(
                   CollapseBlankLines(
                       BlankBeforeQuotes(
                           BlankBeforeHeadings(HeadingSpaces(text), 1), 1), 1), 1))

(***************************************************************************)
(* renumber_ordered_lists (app.py 175-207).                                *)
(***************************************************************************)
DigitChars == <<"0", "1", "2", "3", "4", "5", "6", "7", "8", "9">>

\* str(n) of a natural number.
RECURSIVE Decimal(_)
Decimal(n) ==
    IF n < 10 THEN <<DigitChars[n + 1]>>
    ELSE Decimal(n \div 10) \o <<DigitChars[(n % 10) + 1]>>

\* " " * n
Spaces(n) == [i \in 1..n |-> " "]

\* The number of leading whitespace characters of a line: len(m.group(1)).
Indent(ln) == Len(ln) - Len(LStrip(ln))

\* The length of the run of digits a text begins with.
RECURSIVE DigitRun(_)
DigitRun(s) == IF s # <<>> /\ Head(s) \in Digits THEN 1 + DigitRun(Tail(s)) ELSE 0

\* num.match(line): whitespace, digits, a period, whitespace, anything.
NumMatches(ln) ==
    LET t == LStrip(ln)
        d == DigitRun(t)
    IN  d >= 1 /\ Len(t) >= d + 2 /\ t[d + 1] = "." /\ IsSpace(t[d + 2])

\* m.group(1) and m.group(3) of a line that matches num.
NumGroup1(ln) == SubSeq(ln, 1, Indent(ln))
NumGroup3(ln) ==
    LET t == LStrip(ln)
    IN  LStrip(SubSeq(t, DigitRun(t) + 2, Len(t)))

\* One pass of the loop over the lines (app.py 186-206).  counters is the
\* dict of the source, a function from the indents it has as keys.
RenumberLine(st, line) ==
    IF FenceMatches(line)
    THEN [st EXCEPT !.in_code = ~st.in_code, !.out = Append(st.out, line)]
    ELSE IF st.in_code
    THEN [st EXCEPT !.out = Append(st.out, line)]
    ELSE IF NumMatches(line)
    THEN LET indent == Indent(line)
             content == NumGroup3(line)
             old == st.counters
             counters ==
                 IF st.active_indent = None \/ st.active_indent # Some(indent)
                 THEN [k \in {j \in DOMAIN old : j < indent} \cup {indent} |->
                          IF k = indent THEN 1 ELSE old[k]]
                 ELSE [k \in DOMAIN old \cup {indent} |->
                          IF k = indent
                          THEN (IF indent \in DOMAIN old THEN old[indent] ELSE 0) + 1
                          ELSE old[k]]
         IN  [st EXCEPT !.active_indent = Some(indent),
                        !.counters = counters,
                        !.out = Append(st.out,
                                       Spaces(indent) \o Decimal(counters[indent])
                                           \o <<".", " ">> \o content)]
    ELSE [st EXCEPT !.active_indent = None, !.out = Append(st.out, line)]

\* The locals before the loop (app.py 180-185).
RenumberStart ==
    [out |-> <<>>, in_code |-> FALSE, counters |-> <<>>, active_indent |-> None]

RECURSIVE RenumberLoop(_, _)
RenumberLoop(st, lines) ==
    IF lines = <<>> THEN st
    ELSE RenumberLoop(RenumberLine(st, Head(lines)), Tail(lines))

renumber_ordered_lists(text) ==
    IF text = <<>> THEN <<>>
    ELSE Strip(Join(RenumberLoop(RenumberStart, SplitLines(text)).out, <<"\n">>))

(***************************************************************************)
(* _split_md_row (app.py 302-321).                                         *)
(***************************************************************************)
Backslash == "\\"
Pipe == "|"

\* One pass of the loop with the in_code test left out of the pipe branch.
SplitRowCharSplitsInCode(st, ch) ==
    IF st.esc
    THEN [st EXCEPT !.buf = Append(st.buf, ch), !.esc = FALSE]
    ELSE IF ch = Backslash
    THEN [st EXCEPT !.esc = TRUE]
    ELSE IF ch = Backquote
    THEN [st EXCEPT !.in_code = ~st.in_code, !.buf = Append(st.buf, ch)]
    ELSE IF ch = Pipe
    THEN [st EXCEPT !.cells = Append(st.cells, Strip(st.buf)), !.buf = <<>>]
    ELSE [st EXCEPT !.buf = Append(st.buf, ch)]

\* One pass of the loop over the characters (app.py 307-317).
SplitRowChar(st, ch) ==
    IF st.esc
    THEN [st EXCEPT !.buf = Append(st.buf, ch), !.esc = FALSE]
    ELSE IF ch = Backslash
    THEN [st EXCEPT !.esc = TRUE]
    ELSE IF ch = Backquote
    THEN [st EXCEPT !.in_code = ~st.in_code, !.buf = Append(st.buf, ch)]
    ELSE IF ch = Pipe /\ ~st.in_code
    THEN [st EXCEPT !.cells = Append(st.cells, Strip(st.buf)), !.buf = <<>>]
    ELSE [st EXCEPT !.buf = Append(st.buf, ch)]

RECURSIVE SplitRowLoop(_, _)
SplitRowLoop(st, chars) ==
    IF chars = <<>> THEN st
    ELSE SplitRowLoop(SplitRowChar(st, Head(chars)), Tail(chars))

\* cells[1:] and cells[:-1] for an empty first and an empty last cell (319-320).
DropOuterEmpty(cells) ==
    LET c1 == IF cells # <<>> /\ Head(cells) = <<>> THEN Tail(cells) ELSE cells
    IN  IF c1 # <<>> /\ Last(c1) = <<>> THEN Front(c1) ELSE c1

_split_md_row(line) ==
    LET st == SplitRowLoop([cells |-> <<>>, buf |-> <<>>, in_code |-> FALSE, esc |-> FALSE],
                           Strip(line))
    IN  DropOuterEmpty(Append(st.cells, Strip(st.buf)))

(***************************************************************************)
(* strip_bold_emphasis (app.py 209-238).                                   *)
(***************************************************************************)
\* pattern.sub(r"\1", part) for the pattern (?<!M)MM(.+?)MM(?!M) of a mark M:
\* the leftmost opening pair of marks with no mark before it and the nearest
\* closing pair with no mark after it that leaves a group of one character or
\* more; the group replaces the match and the scan goes on after the match.
RECURSIVE BoldSubFrom(_, _, _)
BoldSubFrom(part, mark, pos) ==
    LET Ends(i) ==
            {e \in (i + 2)..(Len(part) - 2) :
                /\ part[e + 1] = mark
                /\ part[e + 2] = mark
                /\ (e + 2 = Len(part) \/ part[e + 3] # mark)}
        starts ==
            {i \in pos..(Len(part) - 1) :
                /\ part[i] = mark
                /\ part[i + 1] = mark
                /\ (i = 1 \/ part[i - 1] # mark)
                /\ Ends(i) # {}}
    IN  IF starts = {} THEN SubSeq(part, pos, Len(part))
        ELSE LET i == Min(starts)
                 e == Min(Ends(i))
             IN  SubSeq(part, pos, i - 1) \o SubSeq(part, i + 2, e)
                     \o BoldSubFrom(part, mark, e + 3)

bold_ast(part) == BoldSubFrom(part, "*", 1)
bold_uscr(part) == BoldSubFrom(part, "_", 1)

\* re.split of a line at its inline code spans: the parts at the odd places
\* are outside code, the parts at the even places are the spans, a backquote
\* up to the next backquote.
RECURSIVE SplitCodeSpans(_)
SplitCodeSpans(line) ==
    LET ticks == {i \in DOMAIN line : line[i] = Backquote}
    IN  IF Cardinality(ticks) < 2 THEN <<line>>
        ELSE LET i == Min(ticks)
                 j == Min(ticks \ {i})
             IN  <<SubSeq(line, 1, i - 1), SubSeq(line, i, j)>>
                     \o SplitCodeSpans(SubSeq(line, j + 1, Len(line)))

\* The loop over parts (app.py 232-237): the parts outside code lose their
\* bold marks, and the parts are joined again.
StripBoldOutsideSpans(line) ==
    LET parts == SplitCodeSpans(line)
    IN  Join([i \in DOMAIN parts |->
                 IF i % 2 = 1 THEN bold_uscr(bold_ast(parts[i])) ELSE parts[i]],
             <<>>)

\* One pass of the loop over the lines (app.py 222-237).
StripBoldLine(st, line) ==
    IF FenceMatches(line)
    THEN [in_code |-> ~st.in_code, out |-> Append(st.out, line)]
    ELSE IF st.in_code
    THEN [st EXCEPT !.out = Append(st.out, line)]
    ELSE [st EXCEPT !.out = Append(st.out, StripBoldOutsideSpans(line))]

RECURSIVE StripBoldLoop(_, _)
StripBoldLoop(st, lines) ==
    IF lines = <<>> THEN st
    ELSE StripBoldLoop(StripBoldLine(st, Head(lines)), Tail(lines))

strip_bold_emphasis(text) ==
    IF text = <<>> THEN <<>>
    ELSE Strip(Join(StripBoldLoop([in_code |-> FALSE, out |-> <<>>],
                                  SplitLines(text)).out,
                    <<"\n">>))

(***************************************************************************)
(* _normalize_key (app.py 323-327) and ALIGN_RE (app.py 300).              *)
(***************************************************************************)
\* re.sub(r"[^\w]+", "_", s): every maximal run of non-word characters
\* becomes one underscore.
RECURSIVE NonWordToUnderscore(_)
NonWordToUnderscore(s) ==
    IF s = <<>> THEN <<>>
    ELSE IF IsWord(Head(s)) THEN <<Head(s)>> \o NonWordToUnderscore(Tail(s))
    ELSE LET RestAfterRun[i \in 0..Len(s)] ==
                 IF i < Len(s) /\ ~IsWord(s[i + 1]) THEN RestAfterRun[i + 1] ELSE i
         IN  <<"_">> \o NonWordToUnderscore(SubSeq(s, RestAfterRun[0] + 1, Len(s)))

\* str.strip("_")
RECURSIVE StripUnderscores(_)
StripUnderscores(s) ==
    IF s # <<>> /\ Head(s) = "_" THEN StripUnderscores(Tail(s))
    ELSE IF s # <<>> /\ Last(s) = "_" THEN StripUnderscores(Front(s))
    ELSE s

_normalize_key(s) ==
    LET k == StripUnderscores(NonWordToUnderscore(Lower(Strip(AsciiFold(s)))))
    IN  IF k = <<>> THEN <<"c", "o", "l">> ELSE k

\* str.split(sep) for a separator of one character.
SplitOn(text, sep) ==
    LET breaks == {0, Len(text) + 1} \cup {i \in DOMAIN text : text[i] = sep}
        Break(k) == CHOOSE b \in breaks : Cardinality({c \in breaks : c < b}) = k
    IN  [k \in 1..(Cardinality(breaks) - 1) |-> SubSeq(text, Break(k - 1) + 1, Break(k) - 1)]

\* One cell of the alignment row: an optional colon, three dashes or more, an
\* optional colon, with whitespace around.
AlignCell(cell) ==
    LET c == Strip(cell)
        d == IF c # <<>> /\ Head(c) = ":" THEN Tail(c) ELSE c
        e == IF d # <<>> /\ Last(d) = ":" THEN Front(d) ELSE d
    IN  Len(e) >= 3 /\ \A i \in DOMAIN e : e[i] = "-"

\* ALIGN_RE.match(line): after an optional outer pipe at either end, two
\* alignment cells or more separated by pipes.
ALIGN_RE(line) ==
    LET t == Strip(line)
        u == IF t # <<>> /\ Head(t) = Pipe THEN Tail(t) ELSE t
        v == IF u # <<>> /\ Last(u) = Pipe THEN Front(u) ELSE u
        cells == SplitOn(v, Pipe)
    IN  Len(cells) >= 2 /\ \A k \in DOMAIN cells : AlignCell(cells[k])

(***************************************************************************)
(* extract_tables (app.py 329-395).                                        *)
(***************************************************************************)
\* The key of header h after the keys made so far, with no suffix for a key
\* that is already taken.
TableKeyNoSuffix(keys, h) == _normalize_key(h)

\* The key of header h after the keys made so far (app.py 359-364): the
\* normalized header, and with the first free suffix _2, _3, ... when that key
\* is already taken.
TableKey(keys, h) ==
    LET k == _normalize_key(h)
        seen == Range(keys)
        Suffixed(c) == k \o <<"_">> \o Decimal(c)
    IN  IF k \in seen
        THEN Suffixed(Min({c \in 2..(Len(keys) + 2) : Suffixed(c) \notin seen}))
        ELSE k

\* The loop over clean_headers (app.py 358-365).
RECURSIVE TableKeys(_, _)
TableKeys(keys, clean_headers) ==
    IF clean_headers = <<>> THEN keys
    ELSE TableKeys(Append(keys, TableKey(keys, Head(clean_headers))),
                   Tail(clean_headers))

\* One row object (app.py 368-373): the row padded or truncated to the number
\* of keys, each cell without its bold marks, as a dict from the keys; for a
\* key that occurs twice the later cell overwrites the earlier one.
RowObject(keys, r) ==
    LET fitted == [i \in 1..Len(keys) |-> IF i <= Len(r) THEN r[i] ELSE <<>>]
        vals == [i \in 1..Len(keys) |-> strip_bold_emphasis(fitted[i])]
    IN  [k \in Range(keys) |->
            vals[CHOOSE i \in DOMAIN keys :
                    keys[i] = k /\ \A j \in DOMAIN keys : keys[j] = k => j <= i]]

\* The index j the loop over the data rows stops at (app.py 347-353); the
\* indices count from 0 as in the source.
RECURSIVE RowsEnd(_, _)
RowsEnd(lines, j) ==
    IF j < Len(lines)
       /\ ~(Pipe \notin Range(lines[j + 1])
            \/ HeadingMatches(lines[j + 1])
            \/ Strip(lines[j + 1]) = <<>>)
    THEN RowsEnd(lines, j + 1)
    ELSE j

\* The outer loop (app.py 340-383), from index i with the tables found so far.
RECURSIVE TablesLoop(_, _, _)
TablesLoop(lines, i, found) ==
    IF ~(i < Len(lines) - 1) THEN found
    ELSE LET header_line == lines[i + 1]
             sep_line == lines[i + 2]
             headers == _split_md_row(header_line)
             j == RowsEnd(lines, i + 2)
             rows == [k \in 1..(j - (i + 2)) |-> _split_md_row(lines[i + 2 + k])]
             clean_headers == [k \in DOMAIN headers |-> strip_bold_emphasis(headers[k])]
             keys == TableKeys(<<>>, clean_headers)
             table == [headers_raw |-> clean_headers,
                       headers |-> keys,
                       rows |-> [k \in DOMAIN rows |-> RowObject(keys, rows[k])],
                       start |-> i,
                       end |-> j - 1]
         IN  IF Pipe \in Range(header_line) /\ ALIGN_RE(sep_line)
                /\ headers # <<>> /\ rows # <<>>
             THEN TablesLoop(lines, j, Append(found, table))
             ELSE TablesLoop(lines, i + 1, found)

\* A string as json.dumps writes it with ensure_ascii=False.
RECURSIVE JsonEscape(_)
JsonEscape(s) ==
    IF s = <<>> THEN <<>>
    ELSE (CASE Head(s) = "\"" -> <<Backslash, "\"">>
            [] Head(s) = Backslash -> <<Backslash, Backslash>>
            [] Head(s) = "\n" -> <<Backslash, "n">>
            [] Head(s) = "\t" -> <<Backslash, "t">>
            [] OTHER -> <<Head(s)>>) \o JsonEscape(Tail(s))
JsonString(s) == <<"\"">> \o JsonEscape(s) \o <<"\"">>

\* The keys of a dict built from a sequence of keys, in the order they were
\* first inserted.
RECURSIVE DictKeys(_)
DictKeys(keys) ==
    IF keys = <<>> THEN <<>>
    ELSE LET d == DictKeys(Front(keys))
         IN  IF Last(keys) \in Range(d) THEN d ELSE Append(d, Last(keys))

\* The lines of json.dumps({"headers": ..., "rows": ...}, indent=2); a row
\* object is written in the order of its keys.
JsonLines(t) ==
    LET Comma(k, n) == IF k < n THEN <<",">> ELSE <<>>
        keys == DictKeys(t.headers)
        nk == Len(keys)
        RowLines(r) ==
            <<Spaces(4) \o <<"{">> >>
            \o [k \in 1..nk |->
                   Spaces(6) \o JsonString(keys[k]) \o <<":", " ">>
                       \o JsonString(t.rows[r][keys[k]]) \o Comma(k, nk)]
            \o <<Spaces(4) \o <<"}">> \o Comma(r, Len(t.rows))>>
        RECURSIVE AllRowLines(_)
        AllRowLines(r) ==
            IF r > Len(t.rows) THEN <<>> ELSE RowLines(r) \o AllRowLines(r + 1)
    IN  << <<"{">>, Spaces(2) \o <<"\"", "h", "e", "a", "d", "e", "r", "s", "\"">> \o <<":", " ", "[">> >>
        \o [k \in DOMAIN t.headers |->
               Spaces(4) \o JsonString(t.headers[k]) \o Comma(k, Len(t.headers))]
        \o << Spaces(2) \o <<"]", ",">>, Spaces(2) \o <<"\"", "r", "o", "w", "s", "\"">> \o <<":", " ", "[">> >>
        \o AllRowLines(1)
        \o << Spaces(2) \o <<"]">>, <<"}">> >>

\* The lines appended for the tables from the idx-th on (app.py 389-394).
RECURSIVE TableSections(_, _)
TableSections(found, idx) ==
    IF idx > Len(found) THEN <<>>
    ELSE << <<"#", "#", "#", " ", "T", "á", "b", "l", "á", "z", "a", "t", " ">> \o Decimal(idx),
            <<Backquote, Backquote, Backquote, "j", "s", "o", "n">>,
            Join(JsonLines(found[idx]), <<"\n">>),
            <<Backquote, Backquote, Backquote>>,
            <<>> >>
         \o TableSections(found, idx + 1)

\* extract_tables(md) as the pair (md_with_tables, tables).
extract_tables(text) ==
    IF text = <<>> THEN <<text, <<>> >>
    ELSE LET found == TablesLoop(SplitLines(text), 0, <<>>)
         IN  IF found = <<>> THEN <<text, <<>> >>
             ELSE << Strip(Join(<<text, <<>>, <<"#", "#", " ", "A", "d", "a", "t", "t", "á", "b", "l", "á", "k", " ", "(", "g", "é", "p", "i", " ", "k", "i", "v", "o", "n", "a", "t", ")">>, <<>> >>
                                    \o TableSections(found, 1),
                                <<"\n">>)),
                     found >>

(***************************************************************************)
(* convert_zip_to_datasets, the loop over the documents (app.py 558-704).  *)
(* The JSONL records, the CSV rows and the report rows are modelled with   *)
(* the fields that come from the selection, the cleaning and the chunking; *)
(* the page id, the metadata columns, the archive of cleaned Markdown      *)
(* files and the tables JSONL are written by the same pass and are left    *)
(* out.                                                                    *)
(***************************************************************************)
\* os.path.basename(fname) and os.path.splitext(...)[0] of a name that ends
\* in ".md" (app.py 422, 560).
basename(fname) == Last(SplitOn(fname, "/"))
FileStem(fname) == SubSeq(basename(fname), 1, Len(basename(fname)) - 3)

\* extract_page_title (app.py 434-440): the title of the first heading of
\* level 1, or the fallback.
RECURSIVE FirstH1(_, _)
FirstH1(lines, fallback) ==
    IF lines = <<>> THEN fallback
    ELSE IF HeadingMatches(Head(lines)) /\ HashRun(Head(lines)) = 1
         THEN Strip(HeadingGroup2(Head(lines)))
         ELSE FirstH1(Tail(lines), fallback)

extract_page_title(text, fallback) == FirstH1(SplitLines(text), fallback)

\* The loop that fills video_txt and lesson_txt (app.py 568-572): the text of
\* the last section of level 2 to 4 that matches each label set.
RECURSIVE ReportTexts(_, _, _, _)
ReportTexts(secs, vlabels, llabels, acc) ==
    IF secs = <<>> THEN acc
    ELSE LET sec == Head(secs)
             inRange == 2 <= sec.level /\ sec.level <= 4
             body == Strip(Join(sec.lines, <<"\n">>))
             video == IF inRange /\ label_match(sec.title, vlabels)
                      THEN body ELSE acc.video_txt
             lesson == IF inRange /\ label_match(sec.title, llabels)
                       THEN body ELSE acc.lesson_txt
         IN  ReportTexts(Tail(secs), vlabels, llabels,
                         [video_txt |-> video, lesson_txt |-> lesson])

\* DocumentOutputs for a loop that writes nothing for a document with no
\* selected section.
DocumentOutputsSkipsNone(fname, text, vlabels, llabels, chunking, target, overlap) ==
    LET secs == split_markdown_sections(text)
        chosen == choose_section(secs, vlabels, llabels, 2, 4)
        md_with_tables ==
            extract_tables(strip_bold_emphasis(
                renumber_ordered_lists(clean_markdown(chosen[2]))))[1]
        row == [file_name |-> basename(fname),
                page_title |-> extract_page_title(text, FileStem(fname)),
                selected_section |-> chosen[1],
                selected_heading |-> chosen[3],
                char_len |-> Len(md_with_tables),
                text_markdown |-> md_with_tables]
    IN  IF chosen[1] = "none"
        THEN [jsonl |-> <<>>, csv |-> <<>>, rep |-> <<>>]
        ELSE [jsonl |-> <<row>>, csv |-> <<row>>, rep |-> <<row>>]

\* The rows of one document (app.py 596-642): the JSONL records (one, or one
\* per chunk), the CSV row and the report row.
DocumentRows(name, title, report, chosen, md_with_tables, parts, chunking) ==
    LET base_rec == [file_name |-> name,
                     page_title |-> title,
                     selected_section |-> chosen[1],
                     selected_heading |-> chosen[3],
                     char_len |-> Len(md_with_tables)]
        Rec(fields) == [k \in DOMAIN base_rec \cup DOMAIN fields |->
                           IF k \in DOMAIN fields THEN fields[k] ELSE base_rec[k]]
    IN  [jsonl |->
             IF chunking
             THEN [i \in DOMAIN parts |->
                      Rec([chunk_index |-> i,
                           text_markdown |-> parts[i].text,
                           char_len |-> Len(parts[i].text)])]
             ELSE <<Rec([text_markdown |-> md_with_tables])>>,
         csv |-> << [file_name |-> name,
                     page_title |-> title,
                     selected_section |-> chosen[1],
                     selected_heading |-> chosen[3],
                     char_len |-> Len(md_with_tables),
                     tartalom |-> md_with_tables] >>,
         rep |-> << [file_name |-> name,
                     page_title |-> title,
                     video_len |-> Len(report.video_txt),
                     lesson_len |-> Len(report.lesson_txt),
                     selected |-> chosen[1],
                     selected_len |-> Len(md_with_tables)] >>]

\* The cleaning of the selected text (app.py 582-588).
CleanSelected(raw_md) ==
    extract_tables(strip_bold_emphasis(
        renumber_ordered_lists(clean_markdown(raw_md))))[1]

\* The chunking of the cleaned text (app.py 603-609) and the rows.
ChunkedRows(name, title, report, chosen, md_with_tables, chunking, target, overlap) ==
    DocumentRows(name, title, report, chosen, md_with_tables,
                 chunk_markdown(md_with_tables, target, overlap), chunking)

\* The cleaning of the text of the selected section, then the chunking.
SelectedRows(name, title, report, chosen, chunking, target, overlap) ==
    ChunkedRows(name, title, report, chosen, CleanSelected(chosen[2]),
                chunking, target, overlap)

\* The report texts and the selection among the sections (app.py 566-580).
SectionRows(name, title, secs, vlabels, llabels, chunking, target, overlap) ==
    SelectedRows(name, title,
                 ReportTexts(secs, vlabels, llabels,
                             [video_txt |-> <<>>, lesson_txt |-> <<>>]),
                 choose_section(secs, vlabels, llabels, 2, 4),
                 chunking, target, overlap)

\* One pass of the loop (app.py 559-642): the records the document adds to the
\* JSONL, the row it adds to the CSV and the row it adds to the report.
DocumentOutputs(fname, text, vlabels, llabels, chunking, target, overlap) ==
    SectionRows(basename(fname), extract_page_title(text, FileStem(fname)),
                split_markdown_sections(text),
                vlabels, llabels, chunking, target, overlap)

\* The variables of the functions a specification does not call.
NoNormalize == normIn = <<>> /\ normOut = <<>> /\ normTwice = <<>>
NoDocument == md = <<>> /\ sections = <<>>
NoSelection ==
    /\ video_labels = <<>>
    /\ lesson_labels = <<>>
    /\ min_level = 2
    /\ max_level = 4
    /\ selected = <<>>
NoChunking ==
    /\ chunk_md = <<>>
    /\ target_chars = 5500
    /\ overlap_chars = 400
    /\ chunks = <<>>
NoRenumber == ren_md = <<>> /\ ren_st = RenumberStart /\ ren_out = <<>>
NoRow == row_line = <<>> /\ row_cells = <<>>
NoTables == table_md = <<>> /\ tables = <<>>
NoCleaning == clean_md = <<>> /\ cleaned = <<>>
NoBatch ==
    /\ md_files = <<>>
    /\ do_chunk = FALSE
    /\ ok = 0
    /\ jsonl_buf = <<>>
    /\ csv_buf = <<>>
    /\ rep_buf = <<>>
NoCore == NoNormalize /\ NoDocument /\ NoSelection /\ NoChunking
NoRest == NoRenumber /\ NoRow /\ NoTables /\ NoCleaning /\ NoBatch

(***************************************************************************)
(* Specification SpecSplit: split_markdown_sections is called on a         *)
(* document.                                                               *)
(***************************************************************************)
RECURSIVE SeqsOver(_, _)
SeqsOver(S, n) ==
    IF n = 0 THEN {<<>>}
    ELSE LET shorter == SeqsOver(S, n - 1)
         IN  shorter \cup {<<x>> \o t : x \in S, t \in {u \in shorter : Len(u) = n - 1}}

\* The lines the documents are made of: a blank line, text, headings with
\* extra whitespace, a heading with no title, and lines that only look like
\* headings.
SplitLineChoices ==
    { <<>>,
      <<"t">>,
      <<"#", " ", " ", "A", " ">>,
      <<"#", "#", " ", "b">>,
      <<"#", "c">>,
      <<"#", " ">>,
      <<" ", "#", " ", "d">> }

SplitDocs == {Join(ls, <<"\n">>) : ls \in SeqsOver(SplitLineChoices, MaxDocLines)}

InitSplit ==
    /\ pc = "split_start"
    /\ md \in SplitDocs
    /\ sections = <<>>
    /\ NoNormalize
    /\ NoSelection
    /\ NoChunking
    /\ NoRest

SplitCall ==
    /\ pc = "split_start"
    /\ sections' = split_markdown_sections(md)
    /\ pc' = "split_done"
    /\ UNCHANGED <<md, normVars, chooseVars, chunkVars, restVars>>

NextSplit == SplitCall

SpecSplit == InitSplit /\ [][NextSplit]_vars

\* The line a section's heading is written out as.
HeadingLine(level, title) == [i \in 1..level |-> "#"] \o <<" ">> \o title

RECURSIVE WriteOut(_)
WriteOut(secs) ==
    IF secs = <<>> THEN <<>>
    ELSE (IF Head(secs).level >= 1
          THEN <<HeadingLine(Head(secs).level, Head(secs).title)>>
          ELSE <<>>)
         \o Head(secs).lines \o WriteOut(Tail(secs))

NoSpace(s) == SelectSeq(s, LAMBDA c : ~IsSpace(c))

\* Two lines are the same line: equal character for character, or the same
\* heading line up to its whitespace.
SameLine(a, b) ==
    \/ a = b
    \/ a # <<>> /\ Head(a) = "#" /\ NoSpace(a) = NoSpace(b)

\* C7: writing out, for each section in order, its heading line (level >= 1)
\* followed by its body lines reproduces the document line for line: as many
\* lines as the original, none lost, duplicated or reordered.
C7_SectionsReproduceDocument ==
    pc = "split_done" =>
        LET original == SplitLines(md)
            written == WriteOut(sections)
        IN  /\ Len(written) = Len(original)
            /\ \A i \in 1..Len(original) : SameLine(original[i], written[i])

\* C7's case: a document with text before the first heading and a heading
\* section that has a body.
C7_Witness ==
    /\ pc = "split_done"
    /\ Len(sections) >= 2
    /\ sections[1].level = 0
    /\ sections[1].lines # <<>>
    /\ sections[2].lines # <<>>

NoHeadingLine(text) == \A i \in 1..Len(SplitLines(text)) : ~HeadingMatches(SplitLines(text)[i])

WholeDocumentSection(text) == [level |-> 0, title |-> <<>>, lines |-> SplitLines(text)]

\* C8 as stated: every document with no heading line, the empty document
\* included, yields exactly one section, of level 0 with empty title, whose
\* body is the whole document.
C8_NoHeadingOneSection ==
    (pc = "split_done" /\ NoHeadingLine(md)) =>
        sections = <<WholeDocumentSection(md)>>

\* C8 as amended: every document with at least one line and no heading line
\* yields exactly one section, of level 0 with empty title, whose body is the
\* whole document; the empty document yields no section.
C8_NoHeadingOneSectionUnlessEmpty ==
    (pc = "split_done" /\ NoHeadingLine(md)) =>
        sections = IF md = <<>> THEN <<>> ELSE <<WholeDocumentSection(md)>>

\* C8's case: a document of several lines, none a heading, one of them
\* starting with "#".
C8_Witness ==
    /\ pc = "split_done"
    /\ NoHeadingLine(md)
    /\ Len(SplitLines(md)) >= 3
    /\ \E i \in 1..Len(SplitLines(md)) : HashRun(SplitLines(md)[i]) > 0
    /\ Len(sections) = 1


(***************************************************************************)
(* Specification SpecChoose: a document is split into sections and         *)
(* choose_section is called on them, as convert_zip_to_datasets does       *)
(* (app.py 567, 574).                                                      *)
(***************************************************************************)
ChooseLineChoices ==
    { <<"t">>,
      <<" ">>,
      <<"#", "#", " ", "V", "i", "d", "e", "ó">>,
      <<"#", "#", "#", " ", "L", "e", "c", "k", "e">>,
      <<"#", "#", "#", "#", " ", "L", "e", "c", "k", "e", " ", "v", "i", "d", "e", "ó">> }

ChooseDocs == {Join(ls, <<"\n">>) : ls \in SeqsOver(ChooseLineChoices, MaxDocLines)}

VideoLabelChoices ==
    { << <<"v", "i", "d", "e", "ó", " ", "s", "z", "ö", "v", "e", "g">>,
         <<"v", "i", "d", "e", "o">> >>,
      << <<"!">> >>,
      <<>> }

LessonLabelChoices ==
    { << <<"l", "e", "c", "k", "e", " ", "s", "z", "ö", "v", "e", "g">>,
         <<"L", "e", "c", "k", "e">> >>,
      <<>> }

LevelRanges == { <<2, 4>>, <<1, 2>> }

InitChoose ==
    /\ pc = "split_start"
    /\ md \in ChooseDocs
    /\ sections = <<>>
    /\ video_labels \in VideoLabelChoices
    /\ lesson_labels \in LessonLabelChoices
    /\ \E r \in LevelRanges : min_level = r[1] /\ max_level = r[2]
    /\ selected = <<>>
    /\ NoNormalize
    /\ NoChunking
    /\ NoRest

ChooseCall ==
    /\ pc = "split_done"
    /\ selected' = choose_section(sections, video_labels, lesson_labels, min_level, max_level)
    /\ pc' = "chosen"
    /\ UNCHANGED <<normVars, splitVars, chooseArgs, chunkVars, restVars>>

NextChoose == SplitCall \/ ChooseCall

SpecChoose == InitChoose /\ [][NextChoose]_vars

InLevelRange(sec) == min_level <= sec.level /\ sec.level <= max_level
TrimmedBody(sec) == Strip(Join(sec.lines, <<"\n">>))

VideoHit(i) ==
    /\ InLevelRange(sections[i])
    /\ label_match(sections[i].title, video_labels)
    /\ TrimmedBody(sections[i]) # <<>>

LessonHit(i) ==
    /\ InLevelRange(sections[i])
    /\ label_match(sections[i].title, lesson_labels)
    /\ ~label_match(sections[i].title, video_labels)
    /\ TrimmedBody(sections[i]) # <<>>

FirstIndex(S) == CHOOSE i \in S : \A j \in S : i <= j

\* C1: choose_section considers only sections with min_level <= level <=
\* max_level and returns ("video", trimmed body, title) of the first such
\* section in document order whose title matches the video labels and whose
\* trimmed body is not empty; if there is none, ("lecke", trimmed body, title)
\* of the first whose title matches the lesson labels but not the video labels
\* and whose trimmed body is not empty; otherwise ("none", "", "").
C1_ChooseSectionOutcome ==
    pc = "chosen" =>
        LET videoHits == {i \in DOMAIN sections : VideoHit(i)}
            lessonHits == {i \in DOMAIN sections : LessonHit(i)}
        IN  selected =
              IF videoHits # {}
              THEN LET sec == sections[FirstIndex(videoHits)]
                   IN  <<"video", TrimmedBody(sec), sec.title>>
              ELSE IF lessonHits # {}
              THEN LET sec == sections[FirstIndex(lessonHits)]
                   IN  <<"lecke", TrimmedBody(sec), sec.title>>
              ELSE <<"none", <<>>, <<>>>>

\* C1's case: a video-labelled section in range with an empty trimmed body,
\* followed by a lesson-labelled section with text: the outcome is "lecke".
C1_Witness ==
    /\ pc = "chosen"
    /\ selected[1] = "lecke"
    /\ \E i, j \in DOMAIN sections :
          /\ i < j
          /\ InLevelRange(sections[i])
          /\ label_match(sections[i].title, video_labels)
          /\ TrimmedBody(sections[i]) = <<>>
          /\ sections[i].lines # <<>>
          /\ selected[3] = sections[j].title

\* A label phrase whose normalized form has no tokens.
Tokenless(raw) == SplitWords(normalize(raw)) = <<>>
HasTokenless(labels) == \E k \in DOMAIN labels : Tokenless(labels[k])

\* The sections whose level is in range, in document order.
InRangeSections == SelectSeq(sections, InLevelRange)

\* C17: label_match is False for every title when the label list is empty; a
\* label phrase with no tokens matches every title, so with such a phrase
\* among the video labels every section with its level in range is a video
\* candidate, none is a lesson candidate, and the selection is the first
\* in-range section with text, as "video".
C17_TokenlessPhraseMatchesAll ==
    pc \in {"split_done", "chosen"} =>
        LET candidates == Candidates(sections, video_labels, lesson_labels,
                                     min_level, max_level)
        IN  /\ video_labels = <<>> =>
                /\ \A i \in DOMAIN sections : ~label_match(sections[i].title, video_labels)
                /\ candidates.video = <<>>
            /\ lesson_labels = <<>> =>
                /\ \A i \in DOMAIN sections : ~label_match(sections[i].title, lesson_labels)
                /\ candidates.lecke = <<>>
            /\ HasTokenless(video_labels) =>
                /\ \A i \in DOMAIN sections : label_match(sections[i].title, video_labels)
                /\ candidates.video = InRangeSections
                /\ candidates.lecke = <<>>
                /\ pc = "chosen" =>
                       LET withText == SelectSeq(InRangeSections,
                                                 LAMBDA sec : TrimmedBody(sec) # <<>>)
                       IN  selected = IF withText = <<>> THEN <<"none", <<>>, <<>>>>
                                      ELSE <<"video", TrimmedBody(withText[1]),
                                             withText[1].title>>

\* A section titled "Lecke" is selected as the video text through the phrase "!".
C17_Witness ==
    /\ pc = "chosen"
    /\ HasTokenless(video_labels)
    /\ lesson_labels # <<>>
    /\ selected[1] = "video"
    /\ selected[3] = <<"L", "e", "c", "k", "e">>

(***************************************************************************)
(* Specification SpecChunk: chunk_markdown is called on a text.            *)
(***************************************************************************)
\* The lines the texts are made of: a blank line, a one-character line, lines
\* with leading and with trailing whitespace, and a code fence.
ChunkLineChoices ==
    { <<>>,
      <<"a">>,
      <<" ", "b">>,
      <<"c", "c", " ">>,
      <<Backquote, Backquote, Backquote>> }

\* convert_zip_to_datasets passes chunk_markdown a text that was stripped
\* (app.py 207, 238, 395): only such texts are drawn.
ChunkTexts ==
    {t \in {Join(ls, <<"\n">>) : ls \in SeqsOver(ChunkLineChoices, MaxChunkLines)} :
        Strip(t) = t}

ChunkTargets == 1..MaxTargetChars
ChunkOverlaps == 0..MaxOverlapChars

InitChunk ==
    /\ pc = "chunk_start"
    /\ chunk_md \in ChunkTexts
    /\ target_chars \in ChunkTargets
    /\ overlap_chars \in ChunkOverlaps
    /\ chunks = <<>>
    /\ NoNormalize
    /\ NoDocument
    /\ NoSelection
    /\ NoRest

ChunkCall ==
    /\ pc = "chunk_start"
    /\ chunks' = chunk_markdown(chunk_md, target_chars, overlap_chars)
    /\ pc' = "chunked"
    /\ UNCHANGED <<normVars, splitVars, chooseVars, chunkArgs, restVars>>

NextChunk == ChunkCall

SpecChunk == InitChunk /\ [][NextChunk]_vars

\* The paragraphs of the source text and of the k-th chunk's text.
SourceParas == split_by_paragraph(chunk_md)
ChunkParas(k) == split_by_paragraph(chunks[k].text)
AllChunkParas == [k \in DOMAIN chunks |-> ChunkParas(k)]

\* Every paragraph trimmed of its leading and trailing whitespace.
Trimmed(paras) == [i \in DOMAIN paras |-> Strip(paras[i])]
TrimmedEach(parasOfChunks) == [k \in DOMAIN parasOfChunks |-> Trimmed(parasOfChunks[k])]

\* The last n elements of a sequence.
LastN(s, n) == SubSeq(s, Len(s) - n + 1, Len(s))

\* C2: every chunk's text is at most target_chars long, except when the chunk
\* contains a paragraph that is by itself longer than target_chars.
C2_ChunkWithinTarget ==
    pc = "chunked" =>
        \A k \in DOMAIN chunks :
            \/ Len(chunks[k].text) <= target_chars
            \/ \E i \in DOMAIN ChunkParas(k) : Len(ChunkParas(k)[i]) > target_chars

\* From chunk k on, every chunk begins with a non-empty trailing run of the
\* chunk before it, followed by at least one new paragraph, and the new
\* paragraphs appended to acc give exactly the paragraphs P.
RECURSIVE Rebuilds(_, _, _, _)
Rebuilds(Q, k, acc, P) ==
    IF k > Len(Q) THEN acc = P
    ELSE \E m \in 1..(Len(Q[k]) - 1) :
            /\ m <= Len(Q[k - 1])
            /\ SubSeq(Q[k], 1, m) = LastN(Q[k - 1], m)
            /\ Rebuilds(Q, k + 1, acc \o SubSeq(Q[k], m + 1, Len(Q[k])), P)

OverlappedCover(Q, P) == IF Q = <<>> THEN P = <<>> ELSE Rebuilds(Q, 2, Q[1], P)

\* C3 as stated: every chunk after the first begins with a non-empty trailing
\* run of the previous chunk's paragraphs followed by at least one new
\* paragraph, and the chunks' paragraphs without the overlapped prefixes are
\* exactly the paragraph sequence of the source.
C3_ChunksRebuildParagraphs ==
    pc = "chunked" => OverlappedCover(AllChunkParas, SourceParas)

\* C3 as amended: the same, with paragraphs compared after trimming their
\* leading and trailing whitespace: a chunk's text is the trimmed join of its
\* paragraphs, so its first paragraph has lost its leading whitespace and its
\* last paragraph its trailing whitespace.
C3_ChunksRebuildTrimmedParagraphs ==
    pc = "chunked" => OverlappedCover(TrimmedEach(AllChunkParas), Trimmed(SourceParas))

\* C3's case: three chunks, the third made of an overlapped paragraph and a
\* new one, from a source with a paragraph that starts or ends with whitespace.
C3_Witness ==
    /\ pc = "chunked"
    /\ Len(chunks) >= 3
    /\ Len(ChunkParas(3)) >= 2
    /\ Trimmed(SourceParas) # SourceParas

\* C4: the chunks' start offsets never decrease.
C4_StartsNonDecreasing ==
    pc = "chunked" =>
        \A k \in 1..(Len(chunks) - 1) : chunks[k].start <= chunks[k + 1].start

\* C5: chunk[i+1].start = chunk[i].end - overlap actually applied, the
\* overlap being the length of the seeded paragraphs joined by blank lines, as
\* they stand at the end of chunk[i].text and the beginning of chunk[i+1].text.
C5_StartIsEndMinusOverlap ==
    pc = "chunked" =>
        \A k \in 1..(Len(chunks) - 1) :
            \E m \in 1..Len(ChunkParas(k + 1)) :
                /\ m <= Len(ChunkParas(k))
                /\ Trimmed(SubSeq(ChunkParas(k + 1), 1, m)) = Trimmed(LastN(ChunkParas(k), m))
                /\ chunks[k + 1].start =
                      chunks[k].end - Len(Join(SubSeq(ChunkParas(k + 1), 1, m), <<"\n", "\n">>))

\* C6: a non-empty input shorter than target_chars gives exactly one chunk,
\* which starts at 0 and holds all the paragraphs of the input.
C6_SmallInputOneChunk ==
    (pc = "chunked" /\ chunk_md # <<>> /\ Len(chunk_md) < target_chars) =>
        /\ Len(chunks) = 1
        /\ chunks[1].start = 0
        /\ Trimmed(ChunkParas(1)) = Trimmed(SourceParas)

(***************************************************************************)
(* Specification SpecNorm: normalize is called on a text, then on its own  *)
(* result.                                                                 *)
(***************************************************************************)
NormAlphabet == {"a", "B", "é", "ß", " ", "!", "_"}

RECURSIVE TextsOver(_, _)
TextsOver(alphabet, n) ==
    IF n = 0 THEN {<<>>}
    ELSE LET shorter == TextsOver(alphabet, n - 1)
         IN  shorter \cup {<<c>> \o t : c \in alphabet, t \in {u \in shorter : Len(u) = n - 1}}

\* The spec's own example, normalize("Videó Szöveg!") and normalize("video szoveg").
VideoSzovegBang == <<"V","i","d","e","ó"," ","S","z","ö","v","e","g","!">>
VideoSzovegPlain == <<"v","i","d","e","o"," ","s","z","o","v","e","g">>

NormInputs == TextsOver(NormAlphabet, MaxStrLen) \cup {VideoSzovegBang, VideoSzovegPlain}

InitNorm ==
    /\ pc = "norm_start"
    /\ normIn \in NormInputs
    /\ normOut = <<>>
    /\ normTwice = <<>>
    /\ NoDocument
    /\ NoSelection
    /\ NoChunking
    /\ NoRest

NormCall ==
    /\ pc = "norm_start"
    /\ normOut' = normalize(normIn)
    /\ pc' = "norm_once"
    /\ UNCHANGED <<normIn, normTwice, splitVars, chooseVars, chunkVars, restVars>>

NormAgain ==
    /\ pc = "norm_once"
    /\ normTwice' = normalize(normOut)
    /\ pc' = "norm_twice"
    /\ UNCHANGED <<normIn, normOut, splitVars, chooseVars, chunkVars, restVars>>

NextNorm == NormCall \/ NormAgain

SpecNorm == InitNorm /\ [][NextNorm]_vars

\* C9: normalize is idempotent: normalize(normalize(x)) = normalize(x) for
\* every text x.
C9_NormalizeIdempotent == pc = "norm_twice" => normTwice = normOut

HasLeadingOrTrailingSpace(s) == s # <<>> /\ (IsSpace(s[1]) \/ IsSpace(s[Len(s)]))
HasAdjacentSpaces(s) == \E i \in 1..(Len(s) - 1) : IsSpace(s[i]) /\ IsSpace(s[i + 1])

\* C10: normalize returns a trimmed canonical form: the result has no leading
\* or trailing space and no two adjacent spaces, and punctuation added at
\* either end of the text does not change the result (normalize of
\* "Videó Szöveg!" equals normalize of "video szoveg").
C10_NormalizeTrimmedCanonical ==
    pc = "norm_once" =>
        /\ ~HasLeadingOrTrailingSpace(normOut)
        /\ ~HasAdjacentSpaces(normOut)
        /\ normalize(normIn \o <<"!">>) = normOut
        /\ normalize(<<"!">> \o normIn) = normOut
        /\ (normIn = VideoSzovegBang => normOut = normalize(VideoSzovegPlain))

(***************************************************************************)
(* Specification SpecRenumber: renumber_ordered_lists is called on a text  *)
(* and runs its loop one line at a time.                                   *)
(***************************************************************************)
\* The lines the texts are made of: list lines with no indent, with an indent
\* of one space, of one tab and of two spaces, with one and with two spaces
\* after the period, prose, a line that only looks like a list line, a blank
\* line and a code fence.
ListLineChoices ==
    { <<"1", ".", " ", "a">>,
      <<"7", ".", " ", " ", "b">>,
      <<" ", "1", ".", " ", "c">>,
      <<"\t", "3", ".", " ", "d">>,
      <<" ", " ", "2", ".", " ", "e">>,
      <<"x">>,
      <<"9", ".", "x">>,
      <<>>,
      <<Backquote, Backquote, Backquote>> }

\* renumber_ordered_lists is called on the result of clean_markdown, which is
\* stripped (app.py 173, 577): only such texts are drawn.
ListTexts ==
    {t \in {Join(ls, <<"\n">>) : ls \in SeqsOver(ListLineChoices, MaxListLines)} :
        Strip(t) = t}

InitRenumber ==
    /\ pc = "renumber_loop"
    /\ ren_md \in ListTexts
    /\ ren_st = RenumberStart
    /\ ren_out = <<>>
    /\ NoCore
    /\ NoRow
    /\ NoTables
    /\ NoCleaning
    /\ NoBatch

\* One pass of the loop: the line after the ones already written to out.
RenumberStep ==
    /\ pc = "renumber_loop"
    /\ Len(ren_st.out) < Len(SplitLines(ren_md))
    /\ ren_st' = RenumberLine(ren_st, SplitLines(ren_md)[Len(ren_st.out) + 1])
    /\ UNCHANGED <<pc, ren_md, ren_out, coreVars, rowVars, tableVars, cleanVars, batchVars>>

\* The return after the loop (app.py 207), or at once for an empty text (178).
RenumberReturn ==
    /\ pc = "renumber_loop"
    /\ Len(ren_st.out) = Len(SplitLines(ren_md))
    /\ ren_out' = Strip(Join(ren_st.out, <<"\n">>))
    /\ pc' = "renumber_done"
    /\ UNCHANGED <<ren_md, ren_st, coreVars, rowVars, tableVars, cleanVars, batchVars>>

NextRenumber == RenumberStep \/ RenumberReturn

SpecRenumber == InitRenumber /\ [][NextRenumber]_vars

ListLines == SplitLines(ren_md)

\* Line i is an ordered-list line outside fenced code: an even number of fence
\* lines stands before it, and it is no fence line itself.
OrderedListLineAt(i) ==
    /\ Cardinality({j \in 1..i : FenceMatches(ListLines[j])}) % 2 = 0
    /\ ~FenceMatches(ListLines[i])
    /\ NumMatches(ListLines[i])

\* The number a written list line carries.
RECURSIVE ParseNat(_)
ParseNat(ds) ==
    IF ds = <<>> THEN 0
    ELSE 10 * ParseNat(Front(ds))
         + (CHOOSE n \in 0..9 : DigitChars[n + 1] = Last(ds))
NumberOf(ln) == LET t == LStrip(ln) IN ParseNat(SubSeq(t, 1, DigitRun(t)))

\* The second of two consecutive list lines is numbered one more than the first
\* at the same indent, and 1 at another indent.
NumberedAfter(i) ==
    /\ NumMatches(ren_st.out[i])
    /\ NumberOf(ren_st.out[i]) =
           IF Indent(ListLines[i]) = Indent(ListLines[i - 1])
           THEN NumberOf(ren_st.out[i - 1]) + 1
           ELSE 1

\* At another indent no counter of a deeper level is left after the line.
DeeperDiscarded(i) ==
    (i = Len(ren_st.out) /\ Indent(ListLines[i]) # Indent(ListLines[i - 1])) =>
        \A k \in DOMAIN ren_st.counters : k <= Indent(ListLines[i])

\* The written line has the indentation and the content of the source line.
IndentAndContentKept(i) ==
    /\ NumGroup1(ren_st.out[i]) = NumGroup1(ListLines[i])
    /\ NumGroup3(ren_st.out[i]) = NumGroup3(ListLines[i])

OneA == <<"1", ".", " ", "a">>

\* C11: of two consecutive ordered-list lines outside fenced code the second
\* receives the first's number plus 1 at the same indent and the number 1 at a
\* different indent, where the counters of deeper levels are discarded; its
\* indentation and its content are preserved; "1. a / 1. a / 1. a" becomes
\* "1. a / 2. a / 3. a".
C11_ConsecutiveListLines ==
    /\ \A i \in 2..Len(ren_st.out) :
           (OrderedListLineAt(i - 1) /\ OrderedListLineAt(i)) =>
               /\ NumberedAfter(i)
               /\ DeeperDiscarded(i)
               /\ IndentAndContentKept(i)
    /\ (pc = "renumber_done" /\ ren_md = Join(<<OneA, OneA, OneA>>, <<"\n">>)) =>
           ren_out = Join(<<OneA, <<"2", ".", " ", "a">>, <<"3", ".", " ", "a">> >>,
                          <<"\n">>)

\* C16: an ordered-list line outside fenced code that follows a line that is
\* not an ordered-list line (prose, a blank line, a fence line, a line inside
\* fenced code) is numbered 1, whatever list lines stand before that line.
C16_NonListLineResets ==
    \A i \in 2..Len(ren_st.out) :
        (OrderedListLineAt(i) /\ ~OrderedListLineAt(i - 1)
            /\ \E j \in 1..(i - 2) : OrderedListLineAt(j)) =>
            /\ NumMatches(ren_st.out[i])
            /\ NumberOf(ren_st.out[i]) = 1

(***************************************************************************)
(* Specification SpecRow: _split_md_row is called on a line.               *)
(***************************************************************************)
RowAlphabet == {"a", " ", Pipe, Backslash, Backquote}

RowLines == TextsOver(RowAlphabet, MaxRowLen)

InitRow ==
    /\ pc = "row_start"
    /\ row_line \in RowLines
    /\ row_cells = <<>>
    /\ NoCore
    /\ NoRenumber
    /\ NoTables
    /\ NoCleaning
    /\ NoBatch

SplitRowCall ==
    /\ pc = "row_start"
    /\ row_cells' = _split_md_row(row_line)
    /\ pc' = "row_done"
    /\ UNCHANGED <<row_line, coreVars, renVars, tableVars, cleanVars, batchVars>>

NextRow == SplitRowCall

SpecRow == InitRow /\ [][NextRow]_vars

\* The trimmed row, and its characters by position.
RowText == Strip(row_line)

\* Position i holds a backslash that escapes the character after it: a
\* backslash that is not escaped itself.
Escapes[i \in 0..Len(RowText)] ==
    IF i = 0 THEN FALSE ELSE RowText[i] = Backslash /\ ~Escapes[i - 1]

EscapedAt(i) == Escapes[i - 1]

\* Position i lies inside an inline code span: an odd number of backquotes
\* that are not escaped stands before it.
InCodeSpanAt(i) ==
    Cardinality({j \in 1..(i - 1) : RowText[j] = Backquote /\ ~EscapedAt(j)}) % 2 = 1

\* The pipes the row is split at.
DelimitingPipes ==
    {i \in DOMAIN RowText : RowText[i] = Pipe /\ ~EscapedAt(i) /\ ~InCodeSpanAt(i)}

\* The text between positions lo and hi without its escaping backslashes.
RECURSIVE Unescaped(_, _)
Unescaped(lo, hi) ==
    IF lo > hi THEN <<>>
    ELSE (IF Escapes[lo] THEN <<>> ELSE <<RowText[lo]>>) \o Unescaped(lo + 1, hi)

\* The trimmed pieces of the row between its delimiting pipes.
RowPieces ==
    LET cuts == {0, Len(RowText) + 1} \cup DelimitingPipes
        Cut(k) == CHOOSE b \in cuts : Cardinality({c \in cuts : c < b}) = k
    IN  [k \in 1..(Cardinality(cuts) - 1) |-> Strip(Unescaped(Cut(k - 1) + 1, Cut(k) - 1))]

\* The outer cells that are discarded: an empty first piece, and an empty last
\* piece that is not the first.
DiscardedOuter ==
    (IF RowPieces[1] = <<>> THEN 1 ELSE 0)
    + (IF Len(RowPieces) >= 2 /\ Last(RowPieces) = <<>> THEN 1 ELSE 0)

RECURSIVE CountPipes(_)
CountPipes(cells) ==
    IF cells = <<>> THEN 0
    ELSE Cardinality({i \in DOMAIN Head(cells) : Head(cells)[i] = Pipe})
         + CountPipes(Tail(cells))

\* C14: _split_md_row splits the row only at the pipes that are neither
\* escaped by a backslash nor inside an inline code span; the cells are the
\* trimmed pieces between those pipes, an escaped pipe and a pipe in a code
\* span staying in their cell as characters; an empty first and an empty last
\* cell are discarded, so the number of cells is the number of delimiting pipes
\* plus one minus the number of discarded outer cells.
C14_SplitsAtDelimitingPipes ==
    pc = "row_done" =>
        /\ row_cells = SubSeq(RowPieces,
                              IF RowPieces[1] = <<>> THEN 2 ELSE 1,
                              IF Len(RowPieces) >= 2 /\ Last(RowPieces) = <<>>
                              THEN Len(RowPieces) - 1 ELSE Len(RowPieces))
        /\ Len(row_cells) = Cardinality(DelimitingPipes) + 1 - DiscardedOuter
        /\ CountPipes(row_cells) =
               Cardinality({i \in DOMAIN RowText : RowText[i] = Pipe})
               - Cardinality(DelimitingPipes)

\* A row with outer pipes, an escaped pipe or a pipe in a code span, and a
\* delimiting pipe between two cells.
C14_Witness ==
    /\ pc = "row_done"
    /\ RowText # <<>>
    /\ RowText[1] = Pipe
    /\ Len(row_cells) = 2
    /\ CountPipes(row_cells) = 1
    /\ Cardinality(DelimitingPipes) = 2

(***************************************************************************)
(* Specification SpecTables: extract_tables is called on a text.           *)
(***************************************************************************)
\* The lines the texts are made of: a header whose two cells normalize to the
\* same key, a header whose second cell is the key the suffix would make, an
\* alignment row, rows of one, of three and of four cells, text and a blank
\* line.
NameNameHeader == <<"|", "N", "a", "m", "e", "|", "N", "a", "m", "e", "|">>
SuffixTakenHeader == <<"|", "n", "|", "n", "_", "2", "|", "N", "|">>
AlignmentRow == <<"|", "-", "-", "-", "|", "-", "-", "-", "|">>
OneCellRow == <<"|", "1", "|">>
ThreeCellRow == <<"|", "x", "|", "|", "y", "|">>
FourCellRow == <<"a", "|", "b", "|", "c", "|", "d">>

TableLineChoices ==
    { NameNameHeader,
      SuffixTakenHeader,
      AlignmentRow,
      OneCellRow,
      ThreeCellRow,
      FourCellRow,
      <<"t">>,
      <<>> }

\* extract_tables is called on the result of strip_bold_emphasis, which is
\* stripped (app.py 238, 581): only such texts are drawn.
TableTexts ==
    {t \in {Join(ls, <<"\n">>) : ls \in SeqsOver(TableLineChoices, MaxTableLines)} :
        Strip(t) = t}

InitTables ==
    /\ pc = "tables_start"
    /\ table_md \in TableTexts
    /\ tables = <<>>
    /\ NoCore
    /\ NoRenumber
    /\ NoRow
    /\ NoCleaning
    /\ NoBatch

ExtractTablesCall ==
    /\ pc = "tables_start"
    /\ tables' = extract_tables(table_md)
    /\ pc' = "tables_done"
    /\ UNCHANGED <<table_md, coreVars, renVars, rowVars, cleanVars, batchVars>>

NextTables == ExtractTablesCall

SpecTables == InitTables /\ [][NextTables]_vars

TableLines == SplitLines(table_md)

\* The cells of the k-th data row of table t in the source text.
SourceRow(t, k) == _split_md_row(TableLines[t.start + 2 + k])

PairwiseDistinct(keys) ==
    \A i, j \in DOMAIN keys : i # j => keys[i] # keys[j]

\* Key i is the normalized header, or, when an earlier key is equal to it, the
\* normalized header with the least suffix _2, _3, ... no earlier key has.
KeyRule(t, i) ==
    LET k == _normalize_key(t.headers_raw[i])
        earlier == {t.headers[j] : j \in 1..(i - 1)}
    IN  IF k \notin earlier THEN t.headers[i] = k
        ELSE \E c \in 2..(i + 1) :
                /\ t.headers[i] = k \o <<"_">> \o Decimal(c)
                /\ t.headers[i] \notin earlier
                /\ \A b \in 2..(c - 1) : (k \o <<"_">> \o Decimal(b)) \in earlier

\* The row object has one entry for each key and no other: the cell of the
\* source row at the key's place, and the empty string where the row is short.
RowRule(t, k) ==
    /\ DOMAIN t.rows[k] = Range(t.headers)
    /\ Cardinality(DOMAIN t.rows[k]) = Len(t.headers)
    /\ \A i \in DOMAIN t.headers :
           t.rows[k][t.headers[i]] =
               IF i <= Len(SourceRow(t, k))
               THEN strip_bold_emphasis(SourceRow(t, k)[i])
               ELSE <<>>

\* C13: in every table of extract_tables the column keys are pairwise
\* distinct, a key equal to an earlier one getting the suffix _2, _3, ...
\* (the headers "Name", "Name" give the keys "name", "name_2"), and every row
\* object has exactly one entry for each key, short rows padded with empty
\* strings and long rows truncated to the number of keys.
C13_DistinctKeysFullRows ==
    pc = "tables_done" =>
        \A n \in DOMAIN tables[2] :
            LET t == tables[2][n]
            IN  /\ PairwiseDistinct(t.headers)
                /\ Len(t.headers) = Len(t.headers_raw)
                /\ \A i \in DOMAIN t.headers : KeyRule(t, i)
                /\ \A k \in DOMAIN t.rows : RowRule(t, k)
                /\ (TableLines[t.start + 1] = NameNameHeader) =>
                       t.headers = <<<<"n", "a", "m", "e">>, <<"n", "a", "m", "e", "_", "2">>>>

\* A table whose second key got a suffix, with a row shorter and a row longer
\* than the header.
C13_Witness ==
    /\ pc = "tables_done"
    /\ \E n \in DOMAIN tables[2] :
           LET t == tables[2][n]
           IN  /\ \E i \in DOMAIN t.headers :
                      t.headers[i] # _normalize_key(t.headers_raw[i])
               /\ \E k \in DOMAIN t.rows : Len(SourceRow(t, k)) < Len(t.headers)
               /\ \E k \in DOMAIN t.rows : Len(SourceRow(t, k)) > Len(t.headers)

(***************************************************************************)
(* Specification SpecClean: the cleaning functions are called on the text  *)
(* of the selected section, as convert_zip_to_datasets does (app.py        *)
(* 577-578).                                                               *)
(***************************************************************************)
\* The lines the texts are made of: a code fence, a line that begins with "#"
\* and a character, a heading, a blank line, bold text, a list line, a quoted
\* list item and plain text.
CleanLineChoices ==
    { <<Backquote, Backquote, Backquote>>,
      <<"#", "x">>,
      <<"#", " ", "y">>,
      <<>>,
      <<"*", "*", "b", "*", "*">>,
      <<"7", ".", " ", "c">>,
      <<">", " ", "-", " ", "d">>,
      <<"a">> }

\* The text of a selected section is stripped (app.py 149): only such texts
\* are drawn.
CleanTexts ==
    {t \in {Join(ls, <<"\n">>) : ls \in SeqsOver(CleanLineChoices, MaxCleanLines)} :
        Strip(t) = t}

InitClean ==
    /\ pc = "clean_start"
    /\ clean_md \in CleanTexts
    /\ cleaned = <<>>
    /\ NoCore
    /\ NoRenumber
    /\ NoRow
    /\ NoTables
    /\ NoBatch

\* cleaned = renumber_ordered_lists(clean_markdown(raw))  (app.py 577)
CleanAndRenumber ==
    /\ pc = "clean_start"
    /\ cleaned' = renumber_ordered_lists(clean_markdown(clean_md))
    /\ pc' = "clean_renumbered"
    /\ UNCHANGED <<clean_md, coreVars, renVars, rowVars, tableVars, batchVars>>

\* cleaned = strip_bold_emphasis(cleaned)  (app.py 578)
StripBold ==
    /\ pc = "clean_renumbered"
    /\ cleaned' = strip_bold_emphasis(cleaned)
    /\ pc' = "clean_done"
    /\ UNCHANGED <<clean_md, coreVars, renVars, rowVars, tableVars, batchVars>>

NextClean == CleanAndRenumber \/ StripBold

SpecClean == InitClean /\ [][NextClean]_vars

\* The fenced code blocks of a text: for the first and second fence line, the
\* third and fourth, ..., the lines between the two.
FencedBlocks(text) ==
    LET lines == SplitLines(text)
        fences == {i \in DOMAIN lines : FenceMatches(lines[i])}
        Fence(k) == CHOOSE i \in fences : Cardinality({j \in fences : j < i}) = k - 1
    IN  [b \in 1..(Cardinality(fences) \div 2) |->
            SubSeq(lines, Fence(2 * b - 1) + 1, Fence(2 * b) - 1)]

\* The letters of a text, in order.
Letters(text) == SelectSeq(text, LAMBDA c : c \in Range(LowerLetters))

\* C12: every line inside a fenced code block is left unchanged by the
\* cleaning: the fenced blocks of
\* strip_bold_emphasis(renumber_ordered_lists(clean_markdown(text))) are the
\* fenced blocks of the text, line for line and in the same order, and the
\* text is not reordered (its letters come in the same order).
C12_FencedCodeUnchanged ==
    pc = "clean_done" =>
        /\ FencedBlocks(cleaned) = FencedBlocks(clean_md)
        /\ Letters(cleaned) = Letters(clean_md)

(***************************************************************************)
(* Specification SpecBatch: convert_zip_to_datasets runs its loop over the *)
(* documents of a batch, one document at a time.                           *)
(***************************************************************************)
\* A paragraph of 600 characters: two of them do not fit one chunk of 1000.
LongParagraph == [i \in 1..600 |-> "a"]

\* The documents: one with a video section under a title, one with no heading,
\* one with a lesson section only, an empty file, one whose video section
\* holds two long paragraphs, and one whose video section holds a table.
BatchTexts ==
    { <<"#", " ", "T", "\n", "#", "#", " ", "V", "i", "d", "e", "ó", "\n", "v">>,
      <<"x">>,
      <<"#", "#", " ", "L", "e", "c", "k", "e", "\n", "l">>,
      <<>>,
      <<"#", "#", " ", "V", "i", "d", "e", "o", "\n">> \o LongParagraph \o <<"\n", "\n">> \o LongParagraph,
      <<"#", "#", " ", "V", "i", "d", "e", "o", "\n", "|", "a", "|", "a", "|", "\n", "|", "-", "-", "-", "|", "-", "-", "-", "|", "\n", "|", "1", "|", "2", "|">> }

\* The k-th file of the archive is named d1.md, d2.md, ...
FileName(k) == <<"d">> \o Decimal(k) \o <<".", "m", "d">>

BatchFiles ==
    {[k \in DOMAIN texts |-> <<FileName(k), texts[k]>>] :
        texts \in SeqsOver(BatchTexts, MaxBatchDocs)}

\* The label lists of the sidebar: the defaults, and a video list of one
\* phrase no document has.
BatchVideoLabels == { << <<"v", "i", "d", "e", "ó", " ", "s", "z", "ö", "v", "e", "g">>, <<"v", "i", "d", "e", "o">> >>, << <<"t", "r", "a", "n", "s", "c", "r", "i", "p", "t">> >> }
BatchLessonLabels == { << <<"l", "e", "c", "k", "e", " ", "s", "z", "ö", "v", "e", "g">>, <<"l", "e", "c", "k", "e">> >> }

\* The chunking settings of the sidebar (app.py 751-753): the least target
\* with no overlap and with the default overlap.
BatchOverlaps == {0, 400}

InitBatch ==
    /\ pc = "batch_loop"
    /\ md_files \in BatchFiles
    /\ do_chunk \in BOOLEAN
    /\ video_labels \in BatchVideoLabels
    /\ lesson_labels \in BatchLessonLabels
    /\ target_chars = 1000
    /\ overlap_chars \in BatchOverlaps
    /\ ok = 0
    /\ jsonl_buf = <<>>
    /\ csv_buf = <<>>
    /\ rep_buf = <<>>
    /\ NoNormalize
    /\ NoDocument
    /\ min_level = 2
    /\ max_level = 4
    /\ selected = <<>>
    /\ chunk_md = <<>>
    /\ chunks = <<>>
    /\ NoRenumber
    /\ NoRow
    /\ NoTables
    /\ NoCleaning

\* One pass of the loop over md_files: the document after the ok documents
\* already processed.
ProcessDocument ==
    /\ pc = "batch_loop"
    /\ ok < Len(md_files)
    /\ LET doc == md_files[ok + 1]
           outputs == DocumentOutputs(doc[1], doc[2], video_labels, lesson_labels,
                                      do_chunk, target_chars, overlap_chars)
       IN  /\ jsonl_buf' = jsonl_buf \o outputs.jsonl
           /\ csv_buf' = csv_buf \o outputs.csv
           /\ rep_buf' = rep_buf \o outputs.rep
    /\ ok' = ok + 1
    /\ UNCHANGED <<pc, batchArgs, coreVars, renVars, rowVars, tableVars, cleanVars>>

\* The end of the loop (app.py 706-720).
BatchReturn ==
    /\ pc = "batch_loop"
    /\ ok = Len(md_files)
    /\ pc' = "batch_done"
    /\ UNCHANGED <<batchVars, coreVars, renVars, rowVars, tableVars, cleanVars>>

NextBatch == ProcessDocument \/ BatchReturn

SpecBatch == InitBatch /\ [][NextBatch]_vars

\* The file names of a sequence of rows, and of the documents processed.
NamesOf(rows) == [i \in DOMAIN rows |-> rows[i].file_name]
ProcessedNames == [k \in 1..ok |-> md_files[k][1]]

\* The sequence without the repetitions of an element next to itself.
RECURSIVE Runs(_)
Runs(s) ==
    IF Len(s) <= 1 THEN s
    ELSE IF s[1] = s[2] THEN Runs(Tail(s)) ELSE <<s[1]>> \o Runs(Tail(s))

\* The document has no section of level 2 to 4 that matches a label list and
\* has text.
NoMatchingSection(k) ==
    choose_section(split_markdown_sections(md_files[k][2]),
                   video_labels, lesson_labels, 2, 4)[1] = "none"

\* C15: after any number of passes every document processed so far has
\* exactly one CSV row and one report row and one JSONL record or more, in
\* the order of the batch; a document with no matching section has them too,
\* with the selection "none" and an empty text; the loop ends only when every
\* document of the batch was processed.
C15_EveryDocumentHasItsRows ==
    /\ ok <= Len(md_files)
    /\ NamesOf(csv_buf) = ProcessedNames
    /\ NamesOf(rep_buf) = ProcessedNames
    /\ Runs(NamesOf(jsonl_buf)) = ProcessedNames
    /\ \A k \in 1..ok :
           NoMatchingSection(k) =>
               /\ csv_buf[k].selected_section = "none"
               /\ csv_buf[k].tartalom = <<>>
               /\ rep_buf[k].selected = "none"
               /\ \A i \in DOMAIN jsonl_buf :
                      jsonl_buf[i].file_name = md_files[k][1] =>
                          /\ jsonl_buf[i].selected_section = "none"
                          /\ jsonl_buf[i].text_markdown = <<>>
    /\ pc = "batch_done" => ok = Len(md_files)

\* A batch of two documents is done: the first has no matching section, the
\* second was written as two chunks.
C15_Witness ==
    /\ pc = "batch_done"
    /\ ok = 2
    /\ NoMatchingSection(1)
    /\ ~NoMatchingSection(2)
    /\ Len(jsonl_buf) = 3

====
